---- MODULE Spec2Model ----
(***************************************************************************)
(* Medical alert dashboard: the form of src/app/page.tsx, the encode       *)
(* endpoint POST /api/process-alert (src/unnamed/part_000) and the device   *)
(* list kept in localStorage under "medicalAlertDevices".                   *)
(*                                                                          *)
(* A JavaScript string is modelled as a sequence of one-character strings,  *)
(* so that padding, joining, number formatting and parsing are computed     *)
(* character by character.                                                  *)
(***************************************************************************)
EXTENDS Integers, Sequences, FiniteSets, TLC

VARIABLES
    name,             \* useState("")            page.tsx:28
    phone,            \* useState("")            page.tsx:29
    email,            \* useState("")            page.tsx:30
    medicalInfo,      \* useState("")            page.tsx:31
    deviceId,         \* useState(""), a string  page.tsx:32
    alerts,           \* useState<Alert[]>([])   page.tsx:33
    formattedOutput,  \* useState<string>("")    page.tsx:34
    toast,            \* title of the last toast shown by the dashboard
    localStorage,     \* the item stored under "medicalAlertDevices"
    calls,            \* encode requests in flight: <<[from, body, resp]>>
    clock,            \* the value new Date() returns
    devices,          \* useState<StoredDevice[]>([])   database/page.tsx:32
    download,         \* the file the last a.click() offered: [name, content]
    serialPort,       \* useState<any>(null)    page.tsx:35
    isConnected,      \* useState(false)        page.tsx:36
    navigatorSerial,  \* "serial" in navigator
    ports,            \* the serial ports of the machine: [state, locked, fatal]
    tasks,            \* awaits of the serial handlers: <<[op, port, data]>>
    uart              \* the last chunk a port has taken

vars == <<name, phone, email, medicalInfo, deviceId, alerts, formattedOutput,
          toast, localStorage, calls, clock, devices, download,
          serialPort, isConnected, navigatorSerial, ports, tasks, uart>>

formVars == <<name, phone, email, medicalInfo, deviceId, alerts>>

\* The state of the database page and of the file export
pageVars == <<devices, download>>

\* The state of the serial connection
serialVars == <<serialPort, isConnected, navigatorSerial, ports, tasks, uart>>

-----------------------------------------------------------------------------
(* Bounds of the model                                                     *)

MaxAlerts == 2      \* alerts in one request sent straight to the endpoint
MaxCalls == 2       \* encode requests in flight
MaxClock == 1       \* readings of the clock
MaxTasks == 2       \* awaits of the serial handlers

\* Math.random().toString(36).substr(2, 9): the ids a saved record can get
RecordIds == {"r0", "r1"}

-----------------------------------------------------------------------------
(* Strings and numbers                                                     *)

NL == "\n"
COMMA == ","
EmptyString == <<>>

DigitChars == <<"0", "1", "2", "3", "4", "5", "6", "7", "8", "9">>

IsDigit(c) == \E d \in 1..10 : DigitChars[d] = c

DigitValue(c) == (CHOOSE d \in 1..10 : DigitChars[d] = c) - 1

RECURSIVE NatToString(_)
NatToString(n) ==
    IF n < 10 THEN <<DigitChars[n + 1]>>
    ELSE NatToString(n \div 10) \o <<DigitChars[(n % 10) + 1]>>

\* Number.prototype.toString() of an integer
NumberToString(n) == IF n < 0 THEN <<"-">> \o NatToString(-n) ELSE NatToString(n)

\* padStart that leaves the string as it is (a forgotten padding)
padStart_NoPadding(s, targetLength, pad) == s

\* String.prototype.padStart(targetLength, padString) with a one-character pad
RECURSIVE padStart(_, _, _)
padStart(s, targetLength, pad) ==
    IF Len(s) >= targetLength THEN s ELSE padStart(<<pad>> \o s, targetLength, pad)

\* Array.prototype.join(sep)
RECURSIVE join(_, _)
join(lines, sep) ==
    IF lines = <<>> THEN EmptyString
    ELSE IF Len(lines) = 1 THEN lines[1]
    ELSE lines[1] \o <<sep>> \o join(Tail(lines), sep)

\* String.prototype.trim(): the model's only white space is the blank
RECURSIVE trimStart(_)
trimStart(s) == IF s # <<>> /\ Head(s) = " " THEN trimStart(Tail(s)) ELSE s

RECURSIVE trimEnd(_)
trimEnd(s) ==
    IF s # <<>> /\ s[Len(s)] = " " THEN trimEnd(SubSeq(s, 1, Len(s) - 1)) ELSE s

trim(s) == trimEnd(trimStart(s))

\* Number.parseInt(string): optional sign, then the leading decimal digits;
\* NaN when there is none. The result is [nan, value].
RECURSIVE leadingDigits(_)
leadingDigits(s) ==
    IF s # <<>> /\ IsDigit(Head(s)) THEN <<Head(s)>> \o leadingDigits(Tail(s)) ELSE <<>>

RECURSIVE digitsValue(_)
digitsValue(ds) ==
    IF ds = <<>> THEN 0
    ELSE 10 * digitsValue(SubSeq(ds, 1, Len(ds) - 1)) + DigitValue(ds[Len(ds)])

parseInt(str) ==
    LET s == trimStart(str)
        negative == s # <<>> /\ Head(s) = "-"
        signed == s # <<>> /\ Head(s) \in {"-", "+"}
        ds == leadingDigits(IF signed THEN Tail(s) ELSE s)
    IN  IF ds = <<>> THEN [nan |-> TRUE, value |-> 0]
        ELSE [nan |-> FALSE,
              value |-> IF negative THEN -digitsValue(ds) ELSE digitsValue(ds)]

-----------------------------------------------------------------------------
(* The encode endpoint, src/unnamed/part_000                               *)

\* alert.type === "Reminder" ? "r" : "m"
typeCode(alert) == IF alert.type = "Reminder" THEN "r" ELSE "m"

\* for (let day = 0; day <= 6; day++): the day codes 0..6 as strings
everydayCodes == [d \in 1..7 |-> NumberToString(d - 1)]

\* expandAlert whose everyday loop stops one day early (day < 6)
expandAlert_SixDays(alert) ==
    LET record(day) == [type |-> typeCode(alert), day |-> day,
                        hour |-> padStart(alert.hour, 2, "0"),
                        minute |-> padStart(alert.minute, 2, "0"),
                        message |-> alert.message]
    IN  IF alert.isEveryday
        THEN [k \in 1..6 |-> record(everydayCodes[k])]
        ELSE [k \in 1..Len(alert.selectedDays) |-> record(alert.selectedDays[k])]

\* The body of data.alerts.forEach: the expanded records of one alert
expandAlert(alert) ==
    LET type == typeCode(alert)
        hour == padStart(alert.hour, 2, "0")
        minute == padStart(alert.minute, 2, "0")
        message == alert.message
        record(day) == [type |-> type, day |-> day, hour |-> hour,
                        minute |-> minute, message |-> message]
    IN  IF alert.isEveryday
        THEN [k \in 1..7 |-> record(everydayCodes[k])]
        ELSE [k \in 1..Len(alert.selectedDays) |-> record(alert.selectedDays[k])]

\* expandedAlerts filled from the last alert to the first
RECURSIVE expandedAlerts_Reversed(_)
expandedAlerts_Reversed(list) ==
    IF list = <<>> THEN <<>>
    ELSE expandedAlerts_Reversed(Tail(list)) \o expandAlert(Head(list))

\* expandedAlerts after data.alerts.forEach
RECURSIVE expandedAlerts(_)
expandedAlerts(list) ==
    IF list = <<>> THEN <<>> ELSE expandAlert(Head(list)) \o expandedAlerts(Tail(list))

\* recordLine with the minute written before the hour
recordLine_MinuteFirst(r) ==
    <<r.type, COMMA>> \o r.day \o <<COMMA>> \o r.minute \o <<COMMA>> \o r.hour
        \o <<COMMA>> \o r.message

\* `${alert.type},${alert.day},${alert.hour},${alert.minute},${alert.message}`
recordLine(r) ==
    <<r.type, COMMA>> \o r.day \o <<COMMA>> \o r.hour \o <<COMMA>> \o r.minute
        \o <<COMMA>> \o r.message

\* `${data.name},${data.phone},${data.email}`
contactLine(data) == data.name \o <<COMMA>> \o data.phone \o <<COMMA>> \o data.email

\* formatAlertData whose first line counts the alerts, not the expanded records
formatAlertData_CountsAlerts(data) ==
    LET expanded == expandedAlerts(data.alerts)
        lines == <<NumberToString(Len(data.alerts))>>
                 \o [k \in 1..Len(expanded) |-> recordLine(expanded[k])]
                 \o <<contactLine(data), data.medicalInfo, NumberToString(data.deviceId)>>
    IN  join(lines, NL)

formatAlertData(data) ==
    LET expanded == expandedAlerts(data.alerts)
        lines == <<NumberToString(Len(expanded))>>
                 \o [k \in 1..Len(expanded) |-> recordLine(expanded[k])]
                 \o <<contactLine(data), data.medicalInfo, NumberToString(data.deviceId)>>
    IN  join(lines, NL)

\* errorResponse that also returns an (empty) output
errorResponse_WithOutput(status, message) ==
    [status |-> status, body |-> [error |-> message, formattedOutput |-> EmptyString]]

errorResponse(status, message) == [status |-> status, body |-> [error |-> message]]

\* POSTResponse without the test of the device id's range
POSTResponse_NoRangeCheck(data) ==
    IF \/ data.name = EmptyString \/ data.phone = EmptyString
       \/ data.email = EmptyString \/ data.medicalInfo = EmptyString
       \/ data.deviceId = 0
    THEN errorResponse(400, "Missing required fields")
    ELSE IF Len(data.alerts) = 0
    THEN errorResponse(400, "At least one alert is required")
    ELSE [status |-> 200,
          body |-> [success |-> TRUE, formattedOutput |-> formatAlertData(data)]]

\* The try block of POST: validation, then the encoding
POSTResponse(data) ==
    IF \/ data.name = EmptyString \/ data.phone = EmptyString
       \/ data.email = EmptyString \/ data.medicalInfo = EmptyString
       \/ data.deviceId = 0
    THEN errorResponse(400, "Missing required fields")
    ELSE IF data.deviceId < 1 \/ data.deviceId > 100
    THEN errorResponse(400, "Device ID must be between 1 and 100")
    ELSE IF Len(data.alerts) = 0
    THEN errorResponse(400, "At least one alert is required")
    ELSE [status |-> 200,
          body |-> [success |-> TRUE, formattedOutput |-> formatAlertData(data)]]

\* The catch block of POST
POSTCatchResponse == errorResponse(500, "Failed to process alert data")

\* response.ok
ok(response) == response.status >= 200 /\ response.status <= 299

-----------------------------------------------------------------------------
(* The database page's counter, src/app/database/page.tsx                  *)

\* let total = 0; device.alerts.forEach(...)
RECURSIVE totalOver(_)
totalOver(list) ==
    IF list = <<>> THEN 0
    ELSE (IF Head(list).isEveryday THEN 7 ELSE Len(Head(list).selectedDays))
         + totalOver(Tail(list))

getTotalExpandedAlerts(device) == totalOver(device.alerts)

-----------------------------------------------------------------------------
(* The dashboard, src/app/page.tsx                                         *)

NoToast == [title |-> "", description |-> ""]

Toast(title, description) == [title |-> title, description |-> description]

\* The item under "medicalAlertDevices": absent (getItem returns null), text
\* that JSON.parse rejects, or the serialised device list.
NoItem == [kind |-> "null", devices |-> <<>>]
MalformedItem == [kind |-> "malformed", devices |-> <<>>]
DevicesItem(list) == [kind |-> "array", devices |-> list]

\* Array.prototype.includes
includes(list, x) == \E k \in 1..Len(list) : list[k] = x

removeAt(list, i) == SubSeq(list, 1, i - 1) \o SubSeq(list, i + 1, Len(list))

\* alerts.filter(...) of handleSubmit: the alerts the form refuses
invalidAlerts(list) ==
    LET invalid(alert) == \/ trim(alert.message) = EmptyString
                          \/ (~alert.isEveryday /\ Len(alert.selectedDays) = 0)
    IN  SelectSeq(list, invalid)

\* handleSubmit up to its await: the four checks, then fetch() sends formData
handleSubmit ==
    LET deviceIdNum == parseInt(deviceId) IN
    IF \/ name = EmptyString \/ phone = EmptyString \/ email = EmptyString
       \/ medicalInfo = EmptyString \/ deviceId = EmptyString
    THEN /\ toast' = Toast("Missing Information", "Please fill in all required fields.")
         /\ UNCHANGED <<formVars, formattedOutput, localStorage, calls, clock,
             pageVars, serialVars>>
    ELSE IF deviceIdNum.nan \/ deviceIdNum.value < 1 \/ deviceIdNum.value > 100
    THEN /\ toast' = Toast("Invalid Device ID", "Device ID must be between 1 and 100.")
         /\ UNCHANGED <<formVars, formattedOutput, localStorage, calls, clock,
             pageVars, serialVars>>
    ELSE IF Len(alerts) = 0
    THEN /\ toast' = Toast("No Alerts", "Please add at least one alert.")
         /\ UNCHANGED <<formVars, formattedOutput, localStorage, calls, clock,
             pageVars, serialVars>>
    ELSE IF Len(invalidAlerts(alerts)) > 0
    THEN /\ toast' = Toast("Invalid Alerts",
                "All alerts must have a message and at least one day selected.")
         /\ UNCHANGED <<formVars, formattedOutput, localStorage, calls, clock,
             pageVars, serialVars>>
    ELSE /\ Len(calls) < MaxCalls
         /\ calls' = Append(calls,
                [from |-> "dashboard",
                 body |-> [name |-> name, phone |-> phone, email |-> email,
                           medicalInfo |-> medicalInfo,
                           deviceId |-> deviceIdNum.value, alerts |-> alerts],
                 resp |-> <<>>])
         /\ UNCHANGED <<formVars, formattedOutput, toast, localStorage, clock,
             pageVars, serialVars>>

\* The endpoint answers call i from its try block
POST(i) ==
    /\ i \in 1..Len(calls)
    /\ calls[i].resp = <<>>
    /\ calls' = [calls EXCEPT ![i].resp = <<POSTResponse(calls[i].body)>>]
    /\ UNCHANGED <<formVars, formattedOutput, toast, localStorage, clock,
        pageVars, serialVars>>

\* The endpoint answers call i from its catch block: request.json() rejected
POSTCatch(i) ==
    /\ i \in 1..Len(calls)
    /\ calls[i].resp = <<>>
    /\ calls' = [calls EXCEPT ![i].resp = <<POSTCatchResponse>>]
    /\ UNCHANGED <<formVars, formattedOutput, toast, localStorage, clock,
        pageVars, serialVars>>

deviceIds(item) == {item.devices[k].id : k \in 1..Len(item.devices)}

\* The ids of the records the database page shows
shownIds == {devices[k].id : k \in 1..Len(devices)}

\* Array.prototype.unshift, as a value
unshift_Push(list, x) == Append(list, x)

unshift(list, x) == <<x>> \o list

\* const deviceConfig = {...}: the record built from the values the handler
\* was called with and from the response
deviceConfig_CurrentForm(closure, id, now, data) ==
    [id |-> id, timestamp |-> now,
     name |-> name, phone |-> phone, email |-> email, medicalInfo |-> medicalInfo,
     deviceId |-> parseInt(deviceId).value, alerts |-> alerts,
     formattedOutput |-> data.formattedOutput]

deviceConfig(closure, id, now, data) ==
    [id |-> id, timestamp |-> now,
     name |-> closure.name, phone |-> closure.phone, email |-> closure.email,
     medicalInfo |-> closure.medicalInfo,
     deviceId |-> closure.deviceId, alerts |-> closure.alerts,
     formattedOutput |-> data.formattedOutput]

\* handleSubmit after its await, the response of call i having arrived. The
\* closure's name, phone, email, medicalInfo, deviceIdNum and alerts are the
\* values formData was built from, kept in calls[i].body.
handleSubmitResume(i) ==
    /\ i \in 1..Len(calls)
    /\ calls[i].from = "dashboard"
    /\ calls[i].resp # <<>>
    /\ LET response == calls[i].resp[1]
           data == response.body
           closure == calls[i].body
       IN  IF ok(response)
           THEN /\ formattedOutput' = data.formattedOutput
                /\ IF localStorage.kind = "malformed"
                   THEN \* JSON.parse(stored) throws: the catch block
                        /\ toast' = Toast("Error", "Failed to connect to the server.")
                        /\ UNCHANGED <<localStorage, clock>>
                   ELSE \E id \in RecordIds \ (deviceIds(localStorage) \cup shownIds) :
                        \E now \in clock..MaxClock :
                        /\ clock' = now
                        /\ localStorage' = DevicesItem(
                             unshift(localStorage.devices,
                                     deviceConfig(closure, id, now, data)))
                        /\ toast' = Toast("Success!",
                             "Alert configuration has been processed and saved.")
           ELSE /\ toast' = Toast("Error", data.error)
                /\ UNCHANGED <<formattedOutput, localStorage, clock>>
    /\ calls' = removeAt(calls, i)
    /\ UNCHANGED <<formVars, pageVars, serialVars>>

\* fetch() of call i rejects: the catch block of handleSubmit
handleSubmitCatch(i) ==
    /\ i \in 1..Len(calls)
    /\ calls[i].from = "dashboard"
    /\ calls[i].resp = <<>>
    /\ toast' = Toast("Error", "Failed to connect to the server.")
    /\ calls' = removeAt(calls, i)
    /\ UNCHANGED <<formVars, formattedOutput, localStorage, clock,
        pageVars, serialVars>>

\* The form's handlers. What the user types or clicks is drawn from small sets.

NameInputs == {EmptyString, <<"n">>}
PhoneInputs == {EmptyString, <<"7">>}
EmailInputs == {EmptyString, <<"e">>}
MedicalInfoInputs == {EmptyString, <<"i">>}
DeviceIdInputs ==
    {EmptyString, <<"0">>, <<"1">>, <<"5">>, <<"1", "0", "0">>, <<"1", "0", "1">>,
     <<"-", "1">>, <<"1", ".", "5">>}
MessageInputs == {EmptyString, <<" ">>, <<"w">>}
TypeInputs == {"Reminder", "Medicine"}
HourInputs == {<<"0", "9">>, <<"8">>, <<"2", "4">>}
MinuteInputs == {<<"0", "0">>, <<"5">>}

\* daysOfWeek[..].value
daysOfWeek == {NumberToString(d) : d \in 0..6}

\* The ids addAlert can draw
AlertIds == {"a1", "a2"}

alertIds(list) == {list[k].id : k \in 1..Len(list)}

setName(v) == name' = v /\ UNCHANGED <<phone, email, medicalInfo, deviceId, alerts,
                                        formattedOutput, toast, localStorage, calls, clock,
                                            pageVars, serialVars>>

setPhone(v) == phone' = v /\ UNCHANGED <<name, email, medicalInfo, deviceId, alerts,
                                          formattedOutput, toast, localStorage, calls, clock,
                                              pageVars, serialVars>>

setEmail(v) == email' = v /\ UNCHANGED <<name, phone, medicalInfo, deviceId, alerts,
                                          formattedOutput, toast, localStorage, calls, clock,
                                              pageVars, serialVars>>

setMedicalInfo(v) ==
    medicalInfo' = v /\ UNCHANGED <<name, phone, email, deviceId, alerts,
                                    formattedOutput, toast, localStorage, calls, clock,
                                        pageVars, serialVars>>

setDeviceId(v) == deviceId' = v /\ UNCHANGED <<name, phone, email, medicalInfo, alerts,
                                                formattedOutput, toast, localStorage, calls, clock,
                                                    pageVars, serialVars>>

setAlerts(list) ==
    alerts' = list /\ UNCHANGED <<name, phone, email, medicalInfo, deviceId,
                                  formattedOutput, toast, localStorage, calls, clock,
                                      pageVars, serialVars>>

newAlert(id) ==
    [id |-> id, message |-> EmptyString, type |-> "Reminder", isEveryday |-> FALSE,
     selectedDays |-> <<>>, hour |-> <<"0", "9">>, minute |-> <<"0", "0">>]

addAlert == \E id \in AlertIds \ alertIds(alerts) : setAlerts(Append(alerts, newAlert(id)))

removeAlert(id) ==
    LET kept(alert) == alert.id # id IN setAlerts(SelectSeq(alerts, kept))

updateAlert(id, field, value) ==
    LET updated(alert) == [alert EXCEPT ![field] = value]
    IN  setAlerts([k \in 1..Len(alerts) |->
            IF alerts[k].id = id THEN updated(alerts[k]) ELSE alerts[k]])

toggleDay(alertId, day) ==
    LET other(d) == d # day
        toggled(alert) ==
            [alert EXCEPT !.selectedDays =
                IF includes(alert.selectedDays, day)
                THEN SelectSeq(alert.selectedDays, other)
                ELSE Append(alert.selectedDays, day)]
    IN  setAlerts([k \in 1..Len(alerts) |->
            IF alerts[k].id = alertId THEN toggled(alerts[k]) ELSE alerts[k]])

toggleEveryday_KeepsDays(alertId, checked) ==
    LET toggled(alert) == [alert EXCEPT !.isEveryday = checked]
    IN  setAlerts([k \in 1..Len(alerts) |->
            IF alerts[k].id = alertId THEN toggled(alerts[k]) ELSE alerts[k]])

toggleEveryday(alertId, checked) ==
    LET toggled(alert) ==
            [alert EXCEPT !.isEveryday = checked,
                          !.selectedDays = IF checked THEN <<>> ELSE alert.selectedDays]
    IN  setAlerts([k \in 1..Len(alerts) |->
            IF alerts[k].id = alertId THEN toggled(alerts[k]) ELSE alerts[k]])

\* What the rendered form lets the user do
EditForm ==
    \/ \E v \in NameInputs : setName(v)
    \/ \E v \in PhoneInputs : setPhone(v)
    \/ \E v \in EmailInputs : setEmail(v)
    \/ \E v \in MedicalInfoInputs : setMedicalInfo(v)
    \/ \E v \in DeviceIdInputs : setDeviceId(v)
    \/ addAlert
    \/ \E k \in 1..Len(alerts) : removeAlert(alerts[k].id)
    \/ \E k \in 1..Len(alerts) :
        \/ \E v \in MessageInputs : updateAlert(alerts[k].id, "message", v)
        \/ \E v \in TypeInputs : updateAlert(alerts[k].id, "type", v)
        \/ \E v \in HourInputs : updateAlert(alerts[k].id, "hour", v)
        \/ \E v \in MinuteInputs : updateAlert(alerts[k].id, "minute", v)
    \/ \E k \in 1..Len(alerts) : \E day \in daysOfWeek :
        \* the day buttons are rendered only while the alert is not everyday
        ~alerts[k].isEveryday /\ toggleDay(alerts[k].id, day)
    \/ \E k \in 1..Len(alerts) : \E checked \in BOOLEAN :
        toggleEveryday(alerts[k].id, checked)

\* Files offered for download

NoDownload == [name |-> EmptyString, content |-> EmptyString]

DotTxt == <<".", "t", "x", "t">>

\* `medical-alert-${deviceId || "config"}.txt`
saveToFileName(id) ==
    <<"m", "e", "d", "i", "c", "a", "l", "-", "a", "l", "e", "r", "t", "-">>
    \o (IF id # EmptyString THEN id ELSE <<"c", "o", "n", "f", "i", "g">>)
    \o DotTxt

saveToFile ==
    /\ IF formattedOutput = EmptyString
       THEN /\ toast' = Toast("No Data", "Please process the alert configuration first.")
            /\ UNCHANGED download
       ELSE /\ download' = [name |-> saveToFileName(deviceId), content |-> formattedOutput]
            /\ toast' = Toast("File Saved", "Alert configuration has been saved to file.")
    /\ UNCHANGED <<formVars, formattedOutput, localStorage, calls, clock, devices,
                   serialVars>>

-----------------------------------------------------------------------------
(* The database page, src/app/database/page.tsx                            *)

\* The page is mounted with devices = [] and its effect calls loadDevices once
loadDevices ==
    /\ devices' = IF localStorage.kind = "array" THEN localStorage.devices ELSE <<>>
    /\ UNCHANGED <<formVars, formattedOutput, toast, localStorage, calls, clock,
                   download, serialVars>>

\* devices.filter((device) => device.id !== id)
withoutId(list, id) ==
    LET kept(device) == device.id # id IN SelectSeq(list, kept)

deleteDevice(id) ==
    LET updated == withoutId(devices, id) IN
    /\ devices' = updated
    /\ localStorage' = DevicesItem(updated)
    /\ toast' = Toast("Device Deleted",
                      "Device configuration has been removed from the database.")
    /\ UNCHANGED <<formVars, formattedOutput, calls, clock, download, serialVars>>

\* `device-${device.deviceId}-${device.id}.txt`; the id is kept as one piece
downloadDeviceName(device) ==
    <<"d", "e", "v", "i", "c", "e", "-">> \o NumberToString(device.deviceId)
    \o <<"-", device.id>> \o DotTxt

downloadDevice(device) ==
    /\ download' = [name |-> downloadDeviceName(device),
                    content |-> device.formattedOutput]
    /\ toast' = Toast("File Downloaded", "Configuration has been downloaded.")
    /\ UNCHANGED <<formVars, formattedOutput, localStorage, calls, clock, devices,
                   serialVars>>

\* confirmed is what confirm() returns
clearAllDevices(confirmed) ==
    /\ IF confirmed
       THEN /\ devices' = <<>>
            /\ localStorage' = NoItem
            /\ toast' = Toast("Database Cleared",
                              "All device configurations have been removed.")
       ELSE UNCHANGED <<devices, localStorage, toast>>
    /\ UNCHANGED <<formVars, formattedOutput, calls, clock, download, serialVars>>

\* What the rendered database page lets the user do
DatabasePage ==
    \/ loadDevices
    \/ \E k \in 1..Len(devices) : deleteDevice(devices[k].id)
    \/ \E k \in 1..Len(devices) : downloadDevice(devices[k])
    \/ Len(devices) > 0 /\ \E confirmed \in BOOLEAN : clearAllDevices(confirmed)

-----------------------------------------------------------------------------
(* The serial connection, src/app/page.tsx:218-288                         *)

\* The ports requestPort() can hand out
Ports == {"cp2102", "cp2102b"}

\* The value of serialPort while no port is kept
null == "null"

\* A port the browser has not opened: port.writable is null until it is
ClosedPort == [state |-> "closed", locked |-> FALSE, fatal |-> FALSE]

\* port.writable: null unless the port is open and has not failed for good
writable(port) == port.state = "opened" /\ ~port.fatal

Task(op, port, data) == [op |-> op, port |-> port, data |-> data]

\* connectToDevice up to its first await. The button is rendered while the
\* output exists and isConnected is false.
connectToDevice ==
    /\ formattedOutput # EmptyString
    /\ ~isConnected
    /\ IF ~navigatorSerial
       THEN /\ toast' = Toast("Not Supported",
                              "Web Serial API is not supported in this browser.")
            /\ UNCHANGED tasks
       ELSE /\ Len(tasks) < MaxTasks
            /\ tasks' = Append(tasks, Task("requestPort", null, EmptyString))
            /\ UNCHANGED toast
    /\ UNCHANGED <<formVars, formattedOutput, localStorage, calls, clock, pageVars,
                   serialPort, isConnected, navigatorSerial, ports, uart>>

\* requestPort() resolves with the port the user picked and port.open() is
\* called; open() on a port that is not closed rejects at once.
requestPortResolve(i) ==
    /\ i \in 1..Len(tasks)
    /\ tasks[i].op = "requestPort"
    /\ \E port \in Ports :
        IF ports[port].state = "closed"
        THEN /\ ports' = [ports EXCEPT ![port].state = "opening"]
             /\ tasks' = [tasks EXCEPT ![i] = Task("open", port, EmptyString)]
             /\ UNCHANGED toast
        ELSE /\ toast' = Toast("Connection Failed",
                               "Failed to connect to CP2102 device.")
             /\ tasks' = removeAt(tasks, i)
             /\ UNCHANGED ports
    /\ UNCHANGED <<formVars, formattedOutput, localStorage, calls, clock, pageVars,
                   serialPort, isConnected, navigatorSerial, uart>>

\* requestPort() rejects: no device, or the user closed the chooser
requestPortReject(i) ==
    /\ i \in 1..Len(tasks)
    /\ tasks[i].op = "requestPort"
    /\ toast' = Toast("Connection Failed", "Failed to connect to CP2102 device.")
    /\ tasks' = removeAt(tasks, i)
    /\ UNCHANGED <<formVars, formattedOutput, localStorage, calls, clock, pageVars,
                   serialPort, isConnected, navigatorSerial, ports, uart>>

\* port.open() resolves: setSerialPort(port); setIsConnected(true)
openResolve_NoFlag(i) ==
    /\ i \in 1..Len(tasks)
    /\ tasks[i].op = "open"
    /\ ports' = [ports EXCEPT ![tasks[i].port] =
                    [state |-> "opened", locked |-> FALSE, fatal |-> FALSE]]
    /\ serialPort' = tasks[i].port
    /\ toast' = Toast("Connected", "Successfully connected to CP2102 device.")
    /\ tasks' = removeAt(tasks, i)
    /\ UNCHANGED <<formVars, formattedOutput, localStorage, calls, clock, pageVars,
                   isConnected, navigatorSerial, uart>>

openResolve(i) ==
    /\ i \in 1..Len(tasks)
    /\ tasks[i].op = "open"
    /\ ports' = [ports EXCEPT ![tasks[i].port] =
                    [state |-> "opened", locked |-> FALSE, fatal |-> FALSE]]
    /\ serialPort' = tasks[i].port
    /\ isConnected' = TRUE
    /\ toast' = Toast("Connected", "Successfully connected to CP2102 device.")
    /\ tasks' = removeAt(tasks, i)
    /\ UNCHANGED <<formVars, formattedOutput, localStorage, calls, clock, pageVars,
                   navigatorSerial, uart>>

\* port.open() rejects: the catch block
openReject(i) ==
    /\ i \in 1..Len(tasks)
    /\ tasks[i].op = "open"
    /\ ports' = [ports EXCEPT ![tasks[i].port] = ClosedPort]
    /\ toast' = Toast("Connection Failed", "Failed to connect to CP2102 device.")
    /\ tasks' = removeAt(tasks, i)
    /\ UNCHANGED <<formVars, formattedOutput, localStorage, calls, clock, pageVars,
                   serialPort, isConnected, navigatorSerial, uart>>

\* disconnectFromDevice up to its await. close() rejects at once on a port
\* that is not open or whose writable stream is locked, and the catch block
\* only logs.
disconnectFromDevice ==
    /\ IF serialPort = null
       THEN UNCHANGED <<ports, tasks>>
       ELSE IF ports[serialPort].state # "opened" \/ ports[serialPort].locked
       THEN UNCHANGED <<ports, tasks>>
       ELSE /\ Len(tasks) < MaxTasks
            /\ ports' = [ports EXCEPT ![serialPort].state = "closing"]
            /\ tasks' = Append(tasks, Task("close", serialPort, EmptyString))
    /\ UNCHANGED <<formVars, formattedOutput, toast, localStorage, calls, clock,
                   pageVars, serialPort, isConnected, navigatorSerial, uart>>

\* close() resolves: setSerialPort(null); setIsConnected(false)
closeResolve(i) ==
    /\ i \in 1..Len(tasks)
    /\ tasks[i].op = "close"
    /\ ports' = [ports EXCEPT ![tasks[i].port] = ClosedPort]
    /\ serialPort' = null
    /\ isConnected' = FALSE
    /\ toast' = Toast("Disconnected", "Disconnected from CP2102 device.")
    /\ tasks' = removeAt(tasks, i)
    /\ UNCHANGED <<formVars, formattedOutput, localStorage, calls, clock, pageVars,
                   navigatorSerial, uart>>

\* close() rejects: the catch block logs. The port stays open or is gone.
closeReject(i) ==
    /\ i \in 1..Len(tasks)
    /\ tasks[i].op = "close"
    /\ \E state \in {"opened", "closed"} :
        ports' = [ports EXCEPT ![tasks[i].port].state = state]
    /\ tasks' = removeAt(tasks, i)
    /\ UNCHANGED <<formVars, formattedOutput, toast, localStorage, calls, clock,
                   pageVars, serialPort, isConnected, navigatorSerial, uart>>

\* sendToUART up to its await: the two early returns, then the try block.
\* serialPort.writable is null or getWriter() throws on a locked stream: the
\* catch block logs.
sendToUART ==
    /\ IF formattedOutput = EmptyString
       THEN UNCHANGED <<ports, tasks>>
       ELSE IF serialPort = null \/ ~isConnected
       THEN UNCHANGED <<ports, tasks>>
       ELSE IF ~writable(ports[serialPort]) \/ ports[serialPort].locked
       THEN UNCHANGED <<ports, tasks>>
       ELSE /\ Len(tasks) < MaxTasks
            /\ ports' = [ports EXCEPT ![serialPort].locked = TRUE]
            /\ tasks' = Append(tasks, Task("write", serialPort, formattedOutput \o NL))
    /\ UNCHANGED <<formVars, formattedOutput, toast, localStorage, calls, clock,
                   pageVars, serialPort, isConnected, navigatorSerial, uart>>

\* writer.write(data) resolves: writer.releaseLock()
writeResolve(i) ==
    /\ i \in 1..Len(tasks)
    /\ tasks[i].op = "write"
    /\ uart' = tasks[i].data
    /\ ports' = [ports EXCEPT ![tasks[i].port].locked = FALSE]
    /\ tasks' = removeAt(tasks, i)
    /\ UNCHANGED <<formVars, formattedOutput, toast, localStorage, calls, clock,
                   pageVars, serialPort, isConnected, navigatorSerial>>

\* writer.write(data) rejects: the catch block logs and releases nothing. What
\* becomes of the errored stream is the browser's: the port keeps it, with the
\* writer's lock on it, replaces it by a new one, or hands out none any more.
writeReject(i) ==
    /\ i \in 1..Len(tasks)
    /\ tasks[i].op = "write"
    /\ \E stream \in {"kept", "replaced", "none"} :
        ports' = [ports EXCEPT ![tasks[i].port].locked = (stream = "kept"),
                               ![tasks[i].port].fatal = (stream = "none")]
    /\ tasks' = removeAt(tasks, i)
    /\ UNCHANGED <<formVars, formattedOutput, toast, localStorage, calls, clock,
                   pageVars, serialPort, isConnected, navigatorSerial, uart>>

Serial ==
    \/ connectToDevice
    \/ \E i \in 1..Len(tasks) : requestPortResolve(i)
    \/ \E i \in 1..Len(tasks) : requestPortReject(i)
    \/ \E i \in 1..Len(tasks) : openResolve(i)
    \/ \E i \in 1..Len(tasks) : openReject(i)
    \/ disconnectFromDevice
    \/ \E i \in 1..Len(tasks) : closeResolve(i)
    \/ \E i \in 1..Len(tasks) : closeReject(i)
    \/ sendToUART
    \/ \E i \in 1..Len(tasks) : writeResolve(i)
    \/ \E i \in 1..Len(tasks) : writeReject(i)

-----------------------------------------------------------------------------
(* The whole system                                                        *)

\* A configuration saved by an earlier visit of the dashboard
PrevData ==
    [name |-> <<"o">>, phone |-> <<"3">>, email |-> <<"m">>, medicalInfo |-> <<"k">>,
     deviceId |-> 9,
     alerts |-> <<[id |-> "a0", message |-> <<"z">>, type |-> "Medicine",
                   isEveryday |-> FALSE, selectedDays |-> <<<<"2">>>>,
                   hour |-> <<"0", "7">>, minute |-> <<"1", "5">>]>>]

PrevOutput == formatAlertData(PrevData)

PrevRecord ==
    [id |-> "r0", timestamp |-> 0, name |-> PrevData.name, phone |-> PrevData.phone,
     email |-> PrevData.email, medicalInfo |-> PrevData.medicalInfo,
     deviceId |-> PrevData.deviceId, alerts |-> PrevData.alerts,
     formattedOutput |-> PrevOutput]

StoredItems == {NoItem, MalformedItem, DevicesItem(<<PrevRecord>>)}

\* No database page yet, nothing exported
InitPages == devices = <<>> /\ download = NoDownload

\* useState(null), useState(false); no port is open, nothing awaited
InitSerial ==
    /\ serialPort = null
    /\ isConnected = FALSE
    /\ ports = [port \in Ports |-> ClosedPort]
    /\ tasks = <<>>
    /\ uart = EmptyString

\* The dashboard as mounted: empty form, whatever the browser has stored
Init ==
    /\ name = EmptyString /\ phone = EmptyString /\ email = EmptyString
    /\ medicalInfo = EmptyString /\ deviceId = EmptyString
    /\ alerts = <<>>
    /\ formattedOutput = EmptyString
    /\ toast = NoToast
    /\ localStorage \in StoredItems
    /\ calls = <<>>
    /\ clock = 0
    /\ InitPages
    /\ navigatorSerial \in BOOLEAN
    /\ InitSerial

Submit ==
    \/ handleSubmit
    \/ \E i \in 1..Len(calls) : POST(i)
    \/ \E i \in 1..Len(calls) : POSTCatch(i)
    \/ \E i \in 1..Len(calls) : handleSubmitResume(i)
    \/ \E i \in 1..Len(calls) : handleSubmitCatch(i)

Next == EditForm \/ Submit \/ saveToFile \/ DatabasePage \/ Serial

Spec == Init /\ [][Next]_vars

-----------------------------------------------------------------------------
(* The encoder and the two validations on bounded inputs                   *)

\* Sequences over S of length at most n
RECURSIVE SeqUpTo(_, _)
SeqUpTo(S, n) ==
    IF n = 0 THEN {<<>>}
    ELSE SeqUpTo(S, n - 1) \cup {Append(q, x) : q \in {r \in SeqUpTo(S, n - 1) : Len(r) = n - 1}, x \in S}

\* Requests a client can send straight to the endpoint (type FormData)
ApiDayLists == {<<>>, <<<<"1">>>>, <<<<"3">>, <<"1">>>>, <<<<"3">>, <<"3">>>>}
ApiEverydayLists == {<<>>, <<<<"3">>, <<"3">>>>}

ApiTimes ==
    {[type |-> "Reminder", hour |-> <<"8">>, minute |-> <<"3", "0">>, message |-> <<"w">>],
     [type |-> "Medicine", hour |-> <<"2", "0">>, minute |-> <<"0">>,
      message |-> <<"a", ",", "b">>],
     [type |-> "Medicine", hour |-> <<"2", "4">>, minute |-> <<"6", "0">>, message |-> <<"p">>],
     [type |-> "Reminder", hour |-> <<>>, minute |-> <<"5">>, message |-> EmptyString]}

ApiAlerts ==
    {[message |-> t.message, type |-> t.type, isEveryday |-> e, selectedDays |-> d,
      hour |-> t.hour, minute |-> t.minute] :
        t \in ApiTimes,
        e \in BOOLEAN,
        d \in ApiDayLists} \ {a \in [message : {t.message : t \in ApiTimes},
                                     type : TypeInputs, isEveryday : {TRUE},
                                     selectedDays : ApiDayLists \ ApiEverydayLists,
                                     hour : {t.hour : t \in ApiTimes},
                                     minute : {t.minute : t \in ApiTimes}] : TRUE}

ApiDeviceIds == {-1, 0, 1, 5, 100, 101}

ApiScalar(n, p, e, m, d) ==
    [name |-> n, phone |-> p, email |-> e, medicalInfo |-> m, deviceId |-> d]

ApiScalars ==
    {ApiScalar(<<"n">>, <<"7">>, <<"e">>, <<"i">>, d) : d \in ApiDeviceIds}
    \cup {ApiScalar(EmptyString, <<"7">>, <<"e">>, <<"i">>, 5),
          ApiScalar(<<"n">>, EmptyString, <<"e">>, <<"i">>, 5),
          ApiScalar(<<"n">>, <<"7">>, EmptyString, <<"i">>, 5),
          ApiScalar(<<"n">>, <<"7">>, <<"e">>, EmptyString, 5),
          ApiScalar(<<"a", ",", "b">>, <<"7">>, <<"e">>, <<"i">>, 5),
          ApiScalar(<<"n">>, <<"7">>, <<"e">>, <<"x", NL, "y">>, 100)}

ApiBody(s, list) ==
    [name |-> s.name, phone |-> s.phone, email |-> s.email,
     medicalInfo |-> s.medicalInfo, deviceId |-> s.deviceId, alerts |-> list]

\* Every scalar part with at most one alert, and two plain scalar parts with
\* every alert list of up to MaxAlerts alerts
ApiBodies ==
    {ApiBody(s, list) : s \in ApiScalars, list \in SeqUpTo(ApiAlerts, 1)}
    \cup {ApiBody(s, list) :
            s \in {ApiScalar(<<"n">>, <<"7">>, <<"e">>, <<"i">>, d) : d \in {1, 100}},
            list \in SeqUpTo(ApiAlerts, MaxAlerts)}

\* Forms the handlers of EditForm can build
FormAlert(id, message, type, isEveryday, selectedDays, hour, minute) ==
    [id |-> id, message |-> message, type |-> type, isEveryday |-> isEveryday,
     selectedDays |-> selectedDays, hour |-> hour, minute |-> minute]

FormFirstAlerts ==
    {newAlert("a1"),
     FormAlert("a1", <<"w">>, "Reminder", FALSE, <<<<"3">>, <<"1">>>>, <<"8">>, <<"0", "0">>),
     FormAlert("a1", <<"w">>, "Medicine", TRUE, <<>>, <<"0", "9">>, <<"5">>),
     FormAlert("a1", <<" ">>, "Reminder", TRUE, <<>>, <<"0", "9">>, <<"0", "0">>),
     FormAlert("a1", <<"w">>, "Reminder", FALSE, <<>>, <<"0", "9">>, <<"0", "0">>),
     FormAlert("a1", <<"w">>, "Reminder", FALSE, <<<<"6">>>>, <<"2", "4">>, <<"0", "0">>)}

FormSecondAlerts ==
    {newAlert("a2"),
     FormAlert("a2", <<"w">>, "Medicine", TRUE, <<>>, <<"0", "9">>, <<"0", "0">>)}

FormAlertLists ==
    {<<>>} \cup {<<a>> : a \in FormFirstAlerts}
    \cup {<<a, b>> : a \in {x \in FormFirstAlerts : x.type = "Reminder" /\ x.message = <<"w">>},
                     b \in FormSecondAlerts}

FormScalars ==
    {ApiScalar(<<"n">>, <<"7">>, <<"e">>, <<"i">>, d) : d \in DeviceIdInputs}
    \cup {ApiScalar(EmptyString, <<"7">>, <<"e">>, <<"i">>, <<"5">>),
          ApiScalar(<<"n">>, EmptyString, <<"e">>, <<"i">>, <<"5">>),
          ApiScalar(<<"n">>, <<"7">>, EmptyString, <<"i">>, <<"5">>),
          ApiScalar(<<"n">>, <<"7">>, <<"e">>, EmptyString, <<"5">>)}

\* Either a form as the user has filled it, with the output of an earlier
\* submission or none, or the untouched dashboard while a client's request is
\* on its way to the endpoint
InitEncode ==
    /\ toast = NoToast
    /\ clock = 0
    /\ InitPages
    /\ navigatorSerial = TRUE
    /\ InitSerial
    /\ \/ /\ \E s \in FormScalars :
                /\ name = s.name /\ phone = s.phone /\ email = s.email
                /\ medicalInfo = s.medicalInfo /\ deviceId = s.deviceId
          /\ alerts \in FormAlertLists
          /\ formattedOutput \in {EmptyString, PrevOutput}
          /\ localStorage \in StoredItems
          /\ calls = <<>>
       \/ /\ name = EmptyString /\ phone = EmptyString /\ email = EmptyString
          /\ medicalInfo = EmptyString /\ deviceId = EmptyString
          /\ alerts = <<>>
          /\ formattedOutput = EmptyString
          /\ localStorage = NoItem
          /\ calls \in {<<[from |-> "client", body |-> b, resp |-> <<>>]>> : b \in ApiBodies}

NextEncode ==
    \/ handleSubmit
    \/ \E i \in 1..Len(calls) : POST(i)
    \/ \E i \in 1..Len(calls) : POSTCatch(i)
    \/ \E i \in 1..Len(calls) : handleSubmitResume(i)
    \/ \E i \in 1..Len(calls) : handleSubmitCatch(i)

SpecEncode == InitEncode /\ [][NextEncode]_vars

-----------------------------------------------------------------------------
(* Reading an encoded text back, as the device would                       *)

\* The elements of a finite set of numbers in ascending order
RECURSIVE Ascending(_)
Ascending(P) ==
    IF P = {} THEN <<>>
    ELSE LET m == CHOOSE x \in P : \A y \in P : x <= y
         IN  <<m>> \o Ascending(P \ {m})

\* String.prototype.split(sep) for a one-character separator
split(s, sep) ==
    LET cuts == <<0>> \o Ascending({k \in 1..Len(s) : s[k] = sep}) \o <<Len(s) + 1>>
    IN  [i \in 1..(Len(cuts) - 1) |-> SubSeq(s, cuts[i] + 1, cuts[i + 1] - 1)]

\* A decimal numeral without sign or leading zeros
IsDecimal(s) ==
    /\ s # <<>>
    /\ \A k \in 1..Len(s) : IsDigit(s[k])
    /\ Len(s) > 1 => s[1] # "0"

RECURSIVE DecimalValue(_)
DecimalValue(s) ==
    IF s = <<>> THEN 0
    ELSE DecimalValue(SubSeq(s, 1, Len(s) - 1)) * 10
         + (CHOOSE v \in 0..9 : DigitChars[v + 1] = s[Len(s)])

HasChar(s, c) == \E k \in 1..Len(s) : s[k] = c

\* The calls the endpoint has answered with success
Answered(c) == c.resp # <<>>
Accepted(c) == Answered(c) /\ c.resp[1].status = 200
Output(c) == c.resp[1].body.formattedOutput
OutLines(c) == split(Output(c), NL)

\* The lines between the count and the contact line; the medical info takes
\* as many lines at the end as it has itself
RecordLines(c) ==
    LET lines == OutLines(c)
    IN  SubSeq(lines, 2, Len(lines) - 2 - Len(split(c.body.medicalInfo, NL)))

\* code,day,HH,MM,message: the message is all that follows the fourth comma
Fields(line) ==
    LET f == split(line, COMMA)
    IN  IF Len(f) < 5
        THEN [code |-> <<"?">>, day |-> <<"?">>, hour |-> <<"?">>, minute |-> <<"?">>,
              message |-> <<"?">>]
        ELSE [code |-> f[1], day |-> f[2], hour |-> f[3], minute |-> f[4],
              message |-> join(SubSeq(f, 5, Len(f)), COMMA)]

WeekdayCodes == <<<<"0">>, <<"1">>, <<"2">>, <<"3">>, <<"4">>, <<"5">>, <<"6">>>>

\* What the wire format asks of an alert's fields
WireCode(alert) ==
    CASE alert.type = "Reminder" -> <<"r">>
      [] alert.type = "Medicine" -> <<"m">>

TwoDigits(s) ==
    CASE Len(s) = 0 -> <<"0", "0">>
      [] Len(s) = 1 -> <<"0", s[1]>>
      [] OTHER -> s

Carries(line, alert, day) ==
    Fields(line) = [code |-> WireCode(alert), day |-> day, hour |-> TwoDigits(alert.hour),
                    minute |-> TwoDigits(alert.minute), message |-> alert.message]

RecordCount(alert) == IF alert.isEveryday THEN 7 ELSE Len(alert.selectedDays)

\* The records of the alerts before the j-th
RECURSIVE Offset(_, _)
Offset(list, j) == IF j <= 1 THEN 0 ELSE Offset(list, j - 1) + RecordCount(list[j - 1])

Distinct(q) == \A a, b \in 1..Len(q) : a # b => q[a] # q[b]

AcceptedCalls == {i \in 1..Len(calls) : Accepted(calls[i])}

-----------------------------------------------------------------------------
(* The claims                                                              *)

\* C1: an alert with isEveryday = TRUE gives exactly seven record lines, with
\* the day codes 0,1,2,3,4,5,6 in this order and the alert's code, padded hour,
\* padded minute and message on each, whatever its selectedDays holds.
C1_EverydayGivesSevenDays ==
    \A i \in AcceptedCalls :
        LET c == calls[i]
            list == c.body.alerts
            recs == RecordLines(c)
        IN  \A j \in 1..Len(list) :
                list[j].isEveryday =>
                    /\ Len(recs) >= Offset(list, j) + 7
                    /\ j = Len(list) => Len(recs) = Offset(list, j) + 7
                    /\ \A k \in 1..7 :
                          Carries(recs[Offset(list, j) + k], list[j], WeekdayCodes[k])

\* An everyday alert whose selectedDays holds a duplicate has been encoded
C1_Witness ==
    \E i \in AcceptedCalls :
        \E j \in 1..Len(calls[i].body.alerts) :
            LET alert == calls[i].body.alerts[j]
            IN  alert.isEveryday /\ Len(alert.selectedDays) = 2 /\ ~Distinct(alert.selectedDays)

\* C2 (as claimed): an alert with isEveryday = FALSE gives |selectedDays|
\* record lines, the k-th carrying the k-th entry of selectedDays, and the day
\* codes of these lines are pairwise distinct.
C2_SelectedDaysGiveDistinctRecords ==
    \A i \in AcceptedCalls :
        LET c == calls[i]
            list == c.body.alerts
            recs == RecordLines(c)
        IN  \A j \in 1..Len(list) :
                ~list[j].isEveryday =>
                    LET n == Len(list[j].selectedDays)
                        off == Offset(list, j)
                    IN  /\ Len(recs) >= off + n
                        /\ j = Len(list) => Len(recs) = off + n
                        /\ \A k \in 1..n : Carries(recs[off + k], list[j], list[j].selectedDays[k])
                        /\ Distinct([k \in 1..n |-> Fields(recs[off + k]).day])

RECURSIVE SumOfCounts(_)
SumOfCounts(list) ==
    IF list = <<>> THEN 0 ELSE RecordCount(Head(list)) + SumOfCounts(Tail(list))

HeaderCount(out) == DecimalValue(split(out, NL)[1])

\* C3: the number on line 1 is the number of record lines after it and the sum
\* over the alerts of (7 if everyday, else |selectedDays|); for a saved record
\* getTotalExpandedAlerts gives the number on line 1 of its formattedOutput.
C3_HeaderIsExpandedCount ==
    /\ \A i \in AcceptedCalls :
          /\ IsDecimal(OutLines(calls[i])[1])
          /\ HeaderCount(Output(calls[i])) = Len(RecordLines(calls[i]))
          /\ HeaderCount(Output(calls[i])) = SumOfCounts(calls[i].body.alerts)
    /\ \A k \in 1..Len(localStorage.devices) :
          LET device == localStorage.devices[k]
          IN  /\ IsDecimal(split(device.formattedOutput, NL)[1])
              /\ getTotalExpandedAlerts(device) = HeaderCount(device.formattedOutput)

\* The dashboard has saved a configuration of a two-day alert and an everyday
\* alert: nine records
C3_Witness ==
    \E k \in 1..Len(localStorage.devices) :
        LET device == localStorage.devices[k]
        IN  /\ device.id # PrevRecord.id
            /\ Len(device.alerts) = 2
            /\ getTotalExpandedAlerts(device) = 9

\* C4: the record lines are one flat sequence in the order of the alerts: the
\* lines of the j-th alert are contiguous and come after all lines of the
\* alerts before it, and nothing else is among them.
C4_RecordsInAlertOrder ==
    \A i \in AcceptedCalls :
        LET c == calls[i]
            list == c.body.alerts
            recs == RecordLines(c)
        IN  /\ Len(recs) = Offset(list, Len(list) + 1)
            /\ \A j \in 1..Len(list) :
                  \A k \in 1..RecordCount(list[j]) :
                      Carries(recs[Offset(list, j) + k], list[j],
                              IF list[j].isEveryday THEN WeekdayCodes[k]
                              ELSE list[j].selectedDays[k])

\* Two different alerts, the first with two days and the second everyday
C4_Witness ==
    \E i \in AcceptedCalls :
        LET list == calls[i].body.alerts
        IN  /\ Len(list) = 2
            /\ ~list[1].isEveryday /\ Len(list[1].selectedDays) = 2
            /\ list[2].isEveryday
            /\ list[1].message # list[2].message

NoCharInTexts(data, ch) ==
    /\ ~HasChar(data.name, ch) /\ ~HasChar(data.phone, ch) /\ ~HasChar(data.email, ch)
    /\ ~HasChar(data.medicalInfo, ch)
    /\ \A j \in 1..Len(data.alerts) : ~HasChar(data.alerts[j].message, ch)

\* The alert the k-th record comes from, and its day
SourceAlert(list, k) ==
    CHOOSE j \in 1..Len(list) : Offset(list, j) < k /\ k <= Offset(list, j + 1)

SourceDay(list, k) ==
    LET j == SourceAlert(list, k)
    IN  IF list[j].isEveryday THEN WeekdayCodes[k - Offset(list, j)]
        ELSE list[j].selectedDays[k - Offset(list, j)]

WireLine(alert, day) ==
    WireCode(alert) \o <<COMMA>> \o day \o <<COMMA>> \o TwoDigits(alert.hour)
        \o <<COMMA>> \o TwoDigits(alert.minute) \o <<COMMA>> \o alert.message

\* C5: for an accepted request whose text fields hold no newline the output
\* is N+4 lines joined by single newlines, without a newline at the end: the
\* count N, N lines code,day,HH,MM,message (r for Reminder, m for Medicine,
\* hour and minute padded with 0 to two characters), then name,phone,email,
\* then the medical info as it is, then the decimal deviceId.
C5_OutputLayout ==
    \A i \in AcceptedCalls :
        LET data == calls[i].body
            out == Output(calls[i])
            lines == OutLines(calls[i])
            n == Len(lines) - 4
        IN  NoCharInTexts(data, NL) =>
                /\ n >= 0
                /\ out[Len(out)] # NL
                /\ IsDecimal(lines[1]) /\ DecimalValue(lines[1]) = n
                /\ \A k \in 1..n :
                      lines[1 + k] = WireLine(data.alerts[SourceAlert(data.alerts, k)],
                                              SourceDay(data.alerts, k))
                /\ lines[n + 2] = data.name \o <<COMMA>> \o data.phone \o <<COMMA>> \o data.email
                /\ lines[n + 3] = data.medicalInfo
                /\ IsDecimal(lines[n + 4]) /\ DecimalValue(lines[n + 4]) = data.deviceId

\* An accepted request without newlines whose hour and minute needed padding
C5_Witness ==
    \E i \in AcceptedCalls :
        LET data == calls[i].body
        IN  /\ NoCharInTexts(data, NL)
            /\ Len(data.alerts) = 2
            /\ Len(data.alerts[1].hour) = 1 /\ Len(data.alerts[2].minute) = 1
            /\ data.alerts[1].type # data.alerts[2].type
            /\ Len(OutLines(calls[i])) > 4

ReadBack(out) ==
    LET lines == split(out, NL)
        n == DecimalValue(lines[1])
        wellFormed ==
            /\ IsDecimal(lines[1])
            /\ Len(lines) = n + 4
            /\ \A k \in 1..n : Len(split(lines[1 + k], COMMA)) = 5
            /\ Len(split(lines[n + 2], COMMA)) = 3
            /\ IsDecimal(lines[n + 4])
    IN  IF ~wellFormed THEN [ok |-> FALSE]
        ELSE [ok |-> TRUE,
              records |-> [k \in 1..n |->
                  LET f == split(lines[1 + k], COMMA)
                  IN  [code |-> f[1], day |-> f[2], hour |-> f[3], minute |-> f[4],
                       message |-> f[5]]],
              name |-> split(lines[n + 2], COMMA)[1],
              phone |-> split(lines[n + 2], COMMA)[2],
              email |-> split(lines[n + 2], COMMA)[3],
              medicalInfo |-> lines[n + 3],
              deviceId |-> DecimalValue(lines[n + 4])]

\* The expanded records of a configuration, by the rules of the wire format
RECURSIVE ExpandedRecords(_)
ExpandedRecords(list) ==
    IF list = <<>> THEN <<>>
    ELSE LET alert == Head(list)
             days == IF alert.isEveryday THEN WeekdayCodes ELSE alert.selectedDays
         IN  [k \in 1..Len(days) |->
                [code |-> WireCode(alert), day |-> days[k], hour |-> TwoDigits(alert.hour),
                 minute |-> TwoDigits(alert.minute), message |-> alert.message]]
             \o ExpandedRecords(Tail(list))

\* C6: for a configuration whose texts hold neither comma nor newline, reading
\* the output back (the count, that many comma-separated records, the contact
\* line, the medical info, the device id) gives the expanded records (code,
\* day, padded hour, padded minute, message) and the name, phone, email,
\* medical info and device id it was made from.
C6_RoundTrip ==
    \A i \in AcceptedCalls :
        LET data == calls[i].body
        IN  (NoCharInTexts(data, NL) /\ NoCharInTexts(data, COMMA)) =>
                ReadBack(Output(calls[i])) =
                    [ok |-> TRUE,
                     records |-> ExpandedRecords(data.alerts),
                     name |-> data.name, phone |-> data.phone, email |-> data.email,
                     medicalInfo |-> data.medicalInfo, deviceId |-> data.deviceId]

\* A two-alert configuration without comma or newline has been read back
C6_Witness ==
    \E i \in AcceptedCalls :
        LET data == calls[i].body
        IN  /\ NoCharInTexts(data, NL) /\ NoCharInTexts(data, COMMA)
            /\ Len(data.alerts) = 2
            /\ data.alerts[1].isEveryday /\ Len(data.alerts[2].selectedDays) = 2
            /\ data.alerts[1].hour # data.alerts[1].minute
            /\ ReadBack(Output(calls[i])).ok

IsIntegerNumeral(s) ==
    LET digits == IF s # <<>> /\ s[1] = "-" THEN Tail(s) ELSE s
    IN  digits # <<>> /\ \A k \in 1..Len(digits) : IsDigit(digits[k])

IntegerValue(s) ==
    IF s[1] = "-" THEN 0 - DecimalValue(Tail(s)) ELSE DecimalValue(s)

FieldOutOfRange == IsIntegerNumeral(deviceId) /\ IntegerValue(deviceId) \notin 1..100

ValidationTitles == {"Missing Information", "Invalid Device ID", "No Alerts", "Invalid Alerts"}

Rejected == toast' # toast /\ toast'.title \in ValidationTitles

RequestSent == Len(calls') > Len(calls)

InvalidAlert(alert) ==
    alert.message = EmptyString \/ (~alert.isEveryday /\ alert.selectedDays = <<>>)

BlankAlert(alert) ==
    (\A k \in 1..Len(alert.message) : alert.message[k] = " ")
    \/ (~alert.isEveryday /\ alert.selectedDays = <<>>)

\* The rest of a request or of the form is as the validations want it
RestOfRequestValid(data) ==
    /\ data.name # EmptyString /\ data.phone # EmptyString /\ data.email # EmptyString
    /\ data.medicalInfo # EmptyString /\ Len(data.alerts) > 0

RestOfFormValid ==
    /\ name # EmptyString /\ phone # EmptyString /\ email # EmptyString
    /\ medicalInfo # EmptyString /\ Len(alerts) > 0
    /\ \A k \in 1..Len(alerts) : ~BlankAlert(alerts[k])

FromTryBlock(c) == Answered(c) /\ c.resp[1] # POSTCatchResponse

C7_EndpointRange ==
    \A i \in 1..Len(calls) :
        LET c == calls[i]
        IN  /\ c.from = "dashboard" => c.body.deviceId \in 1..100
            /\ (FromTryBlock(c) /\ c.body.deviceId \notin 1..100) =>
                  /\ c.resp[1].status = 400
                  /\ "formattedOutput" \notin DOMAIN c.resp[1].body
            /\ (FromTryBlock(c) /\ c.body.deviceId \in {1, 100} /\ RestOfRequestValid(c.body)) =>
                  /\ c.resp[1].status = 200
                  /\ LET lines == OutLines(c)
                     IN  DecimalValue(lines[Len(lines)]) = c.body.deviceId

\* C7: a device id outside [1,100] is rejected before encoding, by handleSubmit
\* (no request is sent, nothing is saved) and by the endpoint (status 400, no
\* output); 1 and 100 with otherwise valid input are accepted and encoded.
C7_DeviceIdOutsideRangeRejected ==
    /\ []C7_EndpointRange
    /\ [][FieldOutOfRange => (~RequestSent /\ UNCHANGED <<localStorage, formattedOutput>>)]_vars
    /\ [][(RestOfFormValid /\ deviceId \in {<<"1">>, <<"1", "0", "0">>}) => ~Rejected]_vars

\* The dashboard has refused the device id 101 of an otherwise valid form
C7_Witness ==
    /\ toast.title = "Invalid Device ID"
    /\ deviceId = <<"1", "0", "1">>
    /\ RestOfFormValid
    /\ calls = <<>>

\* C8 (as claimed): a request with an alert whose message is empty, or which is
\* not everyday and has no selected day, is never encoded, whether it comes
\* from handleSubmit or straight to the endpoint.
C8_InvalidAlertsNeverEncoded ==
    \A i \in 1..Len(calls) :
        (\E j \in 1..Len(calls[i].body.alerts) : InvalidAlert(calls[i].body.alerts[j]))
            => ~Accepted(calls[i])

TwoDigitNumberUpTo(s, max) ==
    /\ Len(s) = 2 /\ IsDigit(s[1]) /\ IsDigit(s[2])
    /\ DecimalValue(s) <= max

\* C9 (as claimed): in every output returned with success each record line has
\* a code r or m, a day 0..6, an hour of two digits in 00..23 and a minute of
\* two digits in 00..59, and the last line is a device id in [1,100].
C9_OutputInWireDomains ==
    \A i \in AcceptedCalls :
        LET lines == OutLines(calls[i])
            recs == RecordLines(calls[i])
        IN  /\ \A k \in 1..Len(recs) :
                  LET f == Fields(recs[k])
                  IN  /\ f.code \in {<<"r">>, <<"m">>}
                      /\ \E d \in 1..7 : f.day = WeekdayCodes[d]
                      /\ TwoDigitNumberUpTo(f.hour, 23)
                      /\ TwoDigitNumberUpTo(f.minute, 59)
            /\ IsDecimal(lines[Len(lines)])
            /\ DecimalValue(lines[Len(lines)]) \in 1..100

FormInvalid ==
    \/ name = EmptyString \/ phone = EmptyString \/ email = EmptyString
    \/ medicalInfo = EmptyString \/ deviceId = EmptyString
    \/ FieldOutOfRange
    \/ Len(alerts) = 0
    \/ \E k \in 1..Len(alerts) : InvalidAlert(alerts[k])

\* The step in which handleSubmit resumes with an error response
ErrorResponseHandled ==
    \E i \in 1..Len(calls) :
        /\ calls[i].from = "dashboard"
        /\ Answered(calls[i]) /\ ~Accepted(calls[i])
        /\ calls' = removeAt(calls, i)

C10_ErrorResponsesCarryNoOutput ==
    \A i \in 1..Len(calls) :
        (Answered(calls[i]) /\ ~Accepted(calls[i])) =>
            DOMAIN calls[i].resp[1].body = {"error"}

\* C10: when a submission fails validation, or the endpoint answers with an
\* error, no output is returned and nothing changes: the error response has no
\* formattedOutput, the device list in localStorage and the dashboard's
\* formattedOutput stay as they were.
C10_FailureChangesNothing ==
    /\ []C10_ErrorResponsesCarryNoOutput
    /\ [][FormInvalid => ~RequestSent]_vars
    /\ [][Rejected => UNCHANGED <<formattedOutput, localStorage, calls, formVars>>]_vars
    /\ [][ErrorResponseHandled => UNCHANGED <<formattedOutput, localStorage>>]_vars

\* The dashboard got the endpoint's error while it showed an earlier output
\* and an earlier record was stored
C10_Witness ==
    /\ toast = Toast("Error", "Failed to process alert data")
    /\ formattedOutput = PrevOutput
    /\ localStorage = DevicesItem(<<PrevRecord>>)

-----------------------------------------------------------------------------
(* The dashboard and the database page on one store                        *)

\* A form that passes every check of handleSubmit
ValidForm ==
    /\ name = <<"n">> /\ phone = <<"7">> /\ email = <<"e">>
    /\ medicalInfo = <<"i">> /\ deviceId = <<"5">>
    /\ alerts = <<FormAlert("a1", <<"w">>, "Reminder", FALSE, <<<<"3">>, <<"1">>>>,
                            <<"8">>, <<"0", "0">>)>>

\* The dashboard with a valid form in one tab, the database page not yet
\* mounted, whatever the browser has stored
InitStore ==
    /\ ValidForm
    /\ formattedOutput = EmptyString
    /\ toast = NoToast
    /\ localStorage \in StoredItems
    /\ calls = <<>>
    /\ clock = 0
    /\ InitPages
    /\ navigatorSerial = TRUE
    /\ InitSerial

NextStore == Submit \/ DatabasePage

SpecStore == InitStore /\ [][NextStore]_vars

Range(q) == {q[k] : k \in 1..Len(q)}

\* call i is answered with success and handleSubmit goes on after its await
SuccessHandled(i) ==
    /\ i \in 1..Len(calls)
    /\ calls[i].resp # <<>>
    /\ ok(calls[i].resp[1])
    /\ handleSubmitResume(i)

\* C11: a record of the persisted list stays in it, with every field as it
\* was written, in every step of the dashboard and of the database page
\* except deleteDevice called with the record's id and a confirmed
\* clearAllDevices.
C11_RecordsLeaveOnlyByDeletion ==
    [][\A r \in Range(localStorage.devices) :
          \/ r \in Range(localStorage'.devices)
          \/ deleteDevice(r.id)
          \/ clearAllDevices(TRUE)]_vars

\* a is b with some elements left out
IsSubsequence(a, b) ==
    LET kept(x) == x \in Range(a) IN a = SelectSeq(b, kept)

MostRecentFirst(list) ==
    \A j, k \in 1..Len(list) : j < k => list[j].timestamp >= list[k].timestamp

\* C12: the persisted list and the list the database page shows have
\* non-increasing timestamps, and every step that changes the persisted list
\* either puts one new record at index 0 before the old list or leaves out
\* records without reordering the rest.
C12_MostRecentFirst ==
    /\ [](MostRecentFirst(localStorage.devices) /\ MostRecentFirst(devices))
    /\ [][localStorage'.devices # localStorage.devices =>
            \/ /\ Len(localStorage'.devices) = Len(localStorage.devices) + 1
               /\ Tail(localStorage'.devices) = localStorage.devices
               /\ Head(localStorage'.devices).id \notin deviceIds(localStorage)
            \/ IsSubsequence(localStorage'.devices, localStorage.devices)]_vars

\* A record saved before an older one after a deletion on the database page,
\* the clock having advanced in between
C12_Witness ==
    /\ Len(localStorage.devices) = 2
    /\ localStorage.devices[1].timestamp > localStorage.devices[2].timestamp
    /\ toast.title = "Success!"
    /\ PrevRecord \notin Range(localStorage.devices)
    /\ devices = <<localStorage.devices[2]>>

\* C13: while the stored text is malformed the database page shows no
\* device, and a submission answered with success leaves the store holding
\* exactly the one record it saved.
C13_MalformedStoreIsEmptyStore ==
    /\ [](localStorage.kind = "malformed" => devices = <<>>)
    /\ [][\A i \in 1..Len(calls) :
            (localStorage.kind = "malformed" /\ SuccessHandled(i)) =>
                /\ localStorage'.kind = "array"
                /\ Len(localStorage'.devices) = 1
                /\ localStorage'.devices[1].formattedOutput = formattedOutput']_vars

-----------------------------------------------------------------------------
(* The serial connection on its own                                        *)

\* The dashboard before and after an encode has succeeded, in a browser with
\* or without the Web Serial API
InitTransmit ==
    /\ ValidForm
    /\ formattedOutput \in {EmptyString, PrevOutput}
    /\ toast = NoToast
    /\ localStorage = DevicesItem(<<PrevRecord>>)
    /\ calls = <<>>
    /\ clock = 0
    /\ InitPages
    /\ navigatorSerial \in BOOLEAN
    /\ InitSerial

SpecTransmit == InitTransmit /\ [][Serial]_vars

\* C14: when the write of a sendToUART fails, formattedOutput, serialPort and
\* isConnected are as before and the port's writable stream is there and not
\* locked, so that the next sendToUART gets a writer.
C14_FailedSendIsRetriable ==
    [][\A i \in 1..Len(tasks) :
          writeReject(i) =>
              /\ UNCHANGED <<formattedOutput, serialPort, isConnected>>
              /\ ~ports'[tasks[i].port].locked
              /\ writable(ports'[tasks[i].port])]_vars

\* sendToUART has called writer.write
WriteIssued ==
    /\ Len(tasks') = Len(tasks) + 1
    /\ tasks'[Len(tasks')].op = "write"

ConnectFailed ==
    \/ \E i \in 1..Len(tasks) : requestPortReject(i)
    \/ \E i \in 1..Len(tasks) : openReject(i)
    \/ \E i \in 1..Len(tasks) :
          tasks[i].op = "requestPort" /\ requestPortResolve(i) /\ Len(tasks') < Len(tasks)

CloseFailed == \E i \in 1..Len(tasks) : closeReject(i)

ConnectionStateConsistent == isConnected <=> serialPort # null

WritesOnlyWhileConnected ==
    [][WriteIssued =>
          /\ isConnected /\ serialPort # null
          /\ formattedOutput # EmptyString
          /\ tasks'[Len(tasks')].data = formattedOutput \o NL]_vars

\* C18 as stated: isConnected is true exactly when serialPort is non-null, a
\* write is issued only while connected and with a non-empty formattedOutput,
\* after a failed close the state is connected and after a failed connect it
\* is disconnected.
C18_SerialStateAsStated ==
    /\ []ConnectionStateConsistent
    /\ WritesOnlyWhileConnected
    /\ [][CloseFailed => (isConnected' /\ serialPort' # null)]_vars
    /\ [][ConnectFailed => (~isConnected' /\ serialPort' = null)]_vars

\* C18 as amended: isConnected is true exactly when serialPort is non-null, a
\* write is issued only while connected and with a non-empty formattedOutput,
\* and a failed close or a failed connect changes neither serialPort nor
\* isConnected.
C18_SerialStateConsistent ==
    /\ []ConnectionStateConsistent
    /\ WritesOnlyWhileConnected
    /\ [][(CloseFailed \/ ConnectFailed) => UNCHANGED <<serialPort, isConnected>>]_vars

\* Connected, a write in flight, after a connect has failed
C18_Witness ==
    /\ isConnected /\ serialPort # null
    /\ \E i \in 1..Len(tasks) : tasks[i].op = "write"
    /\ toast.title = "Connection Failed"

-----------------------------------------------------------------------------
(* The alert list of the form on its own                                   *)

\* The day buttons the user clicks
DayButtons == {<<"0">>, <<"3">>, <<"6">>}

\* The dashboard as mounted, nothing stored
InitAlerts ==
    /\ name = EmptyString /\ phone = EmptyString /\ email = EmptyString
    /\ medicalInfo = EmptyString /\ deviceId = EmptyString
    /\ alerts = <<>>
    /\ formattedOutput = EmptyString
    /\ toast = NoToast
    /\ localStorage = NoItem
    /\ calls = <<>>
    /\ clock = 0
    /\ InitPages
    /\ navigatorSerial = TRUE
    /\ InitSerial

NextAlerts ==
    \/ addAlert
    \/ \E k \in 1..Len(alerts) : removeAlert(alerts[k].id)
    \/ \E k \in 1..Len(alerts) : \E day \in DayButtons :
        \* the day buttons are rendered only while the alert is not everyday
        ~alerts[k].isEveryday /\ toggleDay(alerts[k].id, day)
    \/ \E k \in 1..Len(alerts) : \E checked \in BOOLEAN :
        toggleEveryday(alerts[k].id, checked)

SpecAlerts == InitAlerts /\ [][NextAlerts]_vars

DaysWellFormed(alert) ==
    /\ Distinct(alert.selectedDays)
    /\ Range(alert.selectedDays) \subseteq daysOfWeek
    /\ alert.isEveryday => alert.selectedDays = <<>>

\* the step is a toggle of the alert at index k
Toggled(k) ==
    \/ \E day \in DayButtons : toggleDay(alerts[k].id, day)
    \/ \E checked \in BOOLEAN : toggleEveryday(alerts[k].id, checked)

\* C16: in every state of the form every alert's selectedDays has no
\* duplicate, holds only codes of 0..6 and is empty when the alert is
\* everyday; toggleEveryday(true) clears the days and toggleEveryday(false)
\* keeps them; a toggle changes no alert but the one with the given id and
\* nothing of that alert but its days and its everyday flag.
C16_SelectedDaysWellFormed ==
    /\ [](\A k \in 1..Len(alerts) : DaysWellFormed(alerts[k]))
    /\ [][\A k \in 1..Len(alerts) : \A checked \in BOOLEAN :
            toggleEveryday(alerts[k].id, checked) =>
                /\ alerts'[k].isEveryday = checked
                /\ alerts'[k].selectedDays =
                      IF checked THEN <<>> ELSE alerts[k].selectedDays]_vars
    /\ [][\A k \in 1..Len(alerts) :
            Toggled(k) =>
                /\ Len(alerts') = Len(alerts)
                /\ \A j \in 1..Len(alerts) : j # k => alerts'[j] = alerts[j]
                /\ alerts'[k] = [alerts[k] EXCEPT
                                    !.selectedDays = alerts'[k].selectedDays,
                                    !.isEveryday = alerts'[k].isEveryday]]_vars

\* Two alerts: one made everyday, the other with days in the order clicked
C16_Witness ==
    /\ Len(alerts) = 2
    /\ alerts[1].isEveryday /\ alerts[1].selectedDays = <<>>
    /\ alerts[2].selectedDays = <<<<"6">>, <<"0">>>>

-----------------------------------------------------------------------------
(* Editing the form while encode requests are pending                      *)

\* The device ids typed while a request is pending
PendingDeviceIds == {<<"5">>, <<"1", "0", "0">>}

\* The dashboard with a valid form, nothing stored yet
InitPending ==
    /\ ValidForm
    /\ formattedOutput = EmptyString
    /\ toast = NoToast
    /\ localStorage = NoItem
    /\ calls = <<>>
    /\ clock = 0
    /\ InitPages
    /\ navigatorSerial = TRUE
    /\ InitSerial

NextPending ==
    \/ \E v \in PendingDeviceIds : setDeviceId(v)
    \/ Submit

SpecPending == InitPending /\ [][NextPending]_vars

\* The configuration a saved record holds, as the endpoint is given it
RecordData(r) ==
    [name |-> r.name, phone |-> r.phone, email |-> r.email,
     medicalInfo |-> r.medicalInfo, deviceId |-> r.deviceId, alerts |-> r.alerts]

\* C17: the formattedOutput of every record of the persisted list is the
\* encoding of the name, phone, email, medicalInfo, deviceId and alerts of
\* that same record.
C17_RecordsSelfConsistent ==
    \A r \in Range(localStorage.devices) :
        r.formattedOutput = formatAlertData(RecordData(r))

\* Two records of different configurations, the one requested first saved
\* last, while the form holds the device id of the other
C17_Witness ==
    /\ Len(localStorage.devices) = 2
    /\ localStorage.devices[1].deviceId = 5
    /\ localStorage.devices[2].deviceId = 100
    /\ localStorage.devices[1].timestamp > localStorage.devices[2].timestamp
    /\ deviceId = <<"1", "0", "0">>
    /\ formattedOutput = localStorage.devices[1].formattedOutput

-----------------------------------------------------------------------------
(* Exporting files from the dashboard and from the database page           *)

\* The dashboard with a valid form; the database page not yet mounted
InitExport ==
    /\ ValidForm
    /\ formattedOutput = EmptyString
    /\ toast = NoToast
    /\ localStorage \in {NoItem, DevicesItem(<<PrevRecord>>)}
    /\ calls = <<>>
    /\ clock = 0
    /\ InitPages
    /\ navigatorSerial = TRUE
    /\ InitSerial

NextExport ==
    \/ \E v \in PendingDeviceIds : setDeviceId(v)
    \/ Submit
    \/ saveToFile
    \/ loadDevices
    \/ \E k \in 1..Len(devices) : downloadDevice(devices[k])

SpecExport == InitExport /\ [][NextExport]_vars

\* The last line of an encoded text: the device identifier
LastLine(out) == LET lines == split(out, NL) IN lines[Len(lines)]

\* C15: the file saveToFile offers holds exactly formattedOutput and is named
\* with the device identifier on the last line of that content; the file
\* downloadDevice offers holds the record's formattedOutput and is named with
\* the record's deviceId.
C15_ExportMatchesConfiguration ==
    /\ [][(saveToFile /\ formattedOutput # EmptyString) =>
            /\ download'.content = formattedOutput
            /\ download'.name = saveToFileName(LastLine(formattedOutput))]_vars
    /\ [][\A k \in 1..Len(devices) :
            downloadDevice(devices[k]) =>
                /\ download'.content = devices[k].formattedOutput
                /\ download'.name = <<"d", "e", "v", "i", "c", "e", "-">>
                                    \o LastLine(devices[k].formattedOutput)
                                    \o <<"-", devices[k].id>> \o DotTxt]_vars

====
